---------------------------- MODULE Spec2Model ----------------------------
(***************************************************************************)
(* Model of the CSV ingestion pipeline of segmentation-api:                *)
(* internal/processor/worker.go (Run: producer, worker pool, progress      *)
(* reporter, shutdown) and the Store collaborator behind                   *)
(* service.SegmentationService.Create.                                     *)
(*                                                                         *)
(* Every action is one step of one goroutine that touches shared state at  *)
(* most once (one atomic add, one channel operation, one context check or  *)
(* one Store call); the local computation around it is part of the step.   *)
(***************************************************************************)
EXTENDS Integers, Sequences, FiniteSets, TLC

(***************************************************************************)
(* Bounds of the model.                                                    *)
(***************************************************************************)
\* largest value of runtime.NumCPU() explored
MaxWorkers == 1
\* largest number of reader.Read() calls that do not return io.EOF
MaxRows == 6

(***************************************************************************)
(* Program constants.                                                      *)
(***************************************************************************)
\* ch := make(chan record, workers*4)
QueueFactor == 4

(***************************************************************************)
(* Text: a string is a sequence of one-character strings, so that          *)
(* strings.TrimSpace and strconv.ParseUint are computed, not assumed.      *)
(***************************************************************************)
IsSpace(c) == c \in {" ", "\t"}

Digits == <<"0", "1", "2", "3", "4", "5", "6", "7", "8", "9">>

IsDigit(c) == \E i \in 1..10 : Digits[i] = c

DigitVal(c) == (CHOOSE i \in 1..10 : Digits[i] = c) - 1

RECURSIVE TrimLeft(_)
TrimLeft(s) ==
    IF s # <<>> /\ IsSpace(Head(s)) THEN TrimLeft(Tail(s)) ELSE s

RECURSIVE TrimRight(_)
TrimRight(s) ==
    IF s # <<>> /\ IsSpace(s[Len(s)])
    THEN TrimRight(SubSeq(s, 1, Len(s) - 1))
    ELSE s

\* strings.TrimSpace
TrimSpace(s) == TrimRight(TrimLeft(s))

RECURSIVE DecimalValue(_)
DecimalValue(s) ==
    IF s = <<>> THEN 0
    ELSE 10 * DecimalValue(SubSeq(s, 1, Len(s) - 1)) + DigitVal(s[Len(s)])

\* The decimal text of 1<<64 - 1.
MaxUint64Text ==
    <<"1", "8", "4", "4", "6", "7", "4", "4", "0", "7",
      "3", "7", "0", "9", "5", "5", "1", "6", "1", "5">>

RECURSIVE StripZeros(_)
StripZeros(s) ==
    IF s # <<>> /\ Head(s) = "0" THEN StripZeros(Tail(s)) ELSE s

\* a > b, for digit texts of the same length.
RECURSIVE DigitsGreater(_, _)
DigitsGreater(a, b) ==
    IF a = <<>> THEN FALSE
    ELSE IF DigitVal(Head(a)) # DigitVal(Head(b))
         THEN DigitVal(Head(a)) > DigitVal(Head(b))
         ELSE DigitsGreater(Tail(a), Tail(b))

\* The value of a digit text is above 1<<64 - 1 (strconv's ErrRange).
OutOfRange(s) ==
    LET d == StripZeros(s)
    IN  \/ Len(d) > Len(MaxUint64Text)
        \/ Len(d) = Len(MaxUint64Text) /\ DigitsGreater(d, MaxUint64Text)

\* strconv.ParseUint(s, 10, 64): err # nil for the empty string, for any
\* character that is not a decimal digit (a sign included) and for a value
\* above the 64-bit maximum.  The values of the texts that parse are small.
ParseUint(s) ==
    IF s = <<>> \/ \E i \in 1..Len(s) : ~IsDigit(s[i])
    THEN [ok |-> FALSE, val |-> 0]
    ELSE IF OutOfRange(s)
    THEN [ok |-> FALSE, val |-> 0]
    ELSE [ok |-> TRUE, val |-> DecimalValue(s)]

(***************************************************************************)
(* The fields the input rows are built from.                               *)
(***************************************************************************)
F_7        == <<"7">>
F_7_sp     == <<" ", "7", " ">>
F_abc      == <<"a", "b", "c">>
F_drug     == <<"d", "r", "u", "g">>
F_drug_sp  == <<" ", "d", "r", "u", "g">>
F_Aspirin  == <<"A", "s", "p", "i", "r", "i", "n">>
F_obj      == <<"{", "}">>
F_obj_sp   == <<"{", "}", " ">>
F_notjson  == <<"n", "o", "t", "-", "j", "s", "o", "n">>
F_extra    == <<"x">>
F_42       == <<"4", "2">>
F_Insulin  == <<"I", "n", "s", "u", "l", "i", "n">>
F_Insulin_sp == <<"I", "n", "s", "u", "l", "i", "n", " ">>
F_obj_v1   == <<"{", "\"", "v", "\"", ":", "1", "}">>

\* json.Valid on the payload texts of the model: of these only "{}" and
\* {"v":1}, with or without surrounding white space, are JSON values;
\* "not-json" and the empty text are not.
JsonValid(s) == TrimSpace(s) \in {F_obj, F_obj_v1}

\* The rows reader.Read() can yield (FieldsPerRecord = -1: any arity).
RowSet ==
    { <<F_7, F_drug, F_Aspirin, F_obj>>,
      <<F_7_sp, F_drug_sp, F_Aspirin, F_obj_sp, F_extra>>,
      <<F_7, F_drug, F_Aspirin>>,
      <<F_abc, F_drug, F_Aspirin, F_obj>>,
      <<F_7, F_drug, F_Aspirin, F_notjson>>,
      <<F_abc, F_drug>>,
      <<F_abc, F_drug, F_Aspirin, F_notjson>> }

NoRow == <<>>

(***************************************************************************)
(* Row validation (worker.go 197-224), computed on the raw row.            *)
(***************************************************************************)
\* MakeRecord with the name field sent as read, without strings.TrimSpace.
MakeRecord_NameUntrimmed(row, seq) ==
    [ seq     |-> seq,
      userID  |-> ParseUint(TrimSpace(row[1])).val,
      segType |-> TrimSpace(row[2]),
      name    |-> row[3],
      data    |-> TrimSpace(row[4]) ]

\* The record the producer sends for a valid row; seq is the ordinal of the
\* hand-off (the value of totalEnqueued after line 217) and identifies the
\* Record instance, it is not a field of the Go struct.
MakeRecord(row, seq) ==
    [ seq     |-> seq,
      userID  |-> ParseUint(TrimSpace(row[1])).val,
      segType |-> TrimSpace(row[2]),
      name    |-> TrimSpace(row[3]),
      data    |-> TrimSpace(row[4]) ]

\* RowVerdict with the payload test of lines 210-215 ahead of the subject
\* id test of lines 203-208.
RowVerdict_JsonFirst(row) ==
    IF Len(row) < 4 THEN "invalid_row_size"
    ELSE IF ~JsonValid(TrimSpace(row[4])) THEN "invalid_json"
    ELSE IF ~ParseUint(TrimSpace(row[1])).ok THEN "invalid_user_id"
    ELSE "ok"

\* RowVerdict without the json.Valid test of lines 210-215.
RowVerdict_NoJsonCheck(row) ==
    IF Len(row) < 4 THEN "invalid_row_size"
    ELSE IF ~ParseUint(TrimSpace(row[1])).ok THEN "invalid_user_id"
    ELSE "ok"

\* Which rejection, if any, lines 197-215 apply to the row.
RowVerdict(row) ==
    IF Len(row) < 4 THEN "invalid_row_size"
    ELSE IF ~ParseUint(TrimSpace(row[1])).ok THEN "invalid_user_id"
    ELSE IF ~JsonValid(TrimSpace(row[4])) THEN "invalid_json"
    ELSE "ok"

NoRec == [seq |-> 0, userID |-> 0, segType |-> <<>>, name |-> <<>>, data |-> <<>>]

(***************************************************************************)
(* The Store collaborator (repository.SegmentationRepository.Upsert behind *)
(* service.Create), as the processor sees it: a call returns an            *)
(* UpsertResult and an error.                                              *)
(***************************************************************************)
UpsertInserted == "UpsertInserted"
UpsertUpdated  == "UpsertUpdated"
UpsertNoOp     == "UpsertNoOp"
UpsertResults  == {UpsertInserted, UpsertUpdated, UpsertNoOp}

\* The stores a run can be given:
\*   "any"       an arbitrary implementation of the interface,
\*   "alwaysErr" a store whose every Upsert fails,
\*   "ctxAware"  the mock of TestRun_ContextCancel: fails with ctx.Err() when
\*               the context it is handed is done, else UpsertInserted.
StoreKinds == {"any", "alwaysErr", "ctxAware"}

\* The (result, err) pairs a call may return; with an error the result is
\* whatever the implementation returns beside it (0 = UpsertInserted for the
\* mocks, UpsertNoOp for the MySQL repository).
StoreReturns(kind, cancelled) ==
    CASE kind = "any" ->
            [result : UpsertResults, err : BOOLEAN]
      [] kind = "alwaysErr" ->
            [result : {UpsertInserted, UpsertNoOp}, err : {TRUE}]
      [] kind = "ctxAware" ->
            IF cancelled
            THEN {[result |-> UpsertInserted, err |-> TRUE]}
            ELSE {[result |-> UpsertInserted, err |-> FALSE]}

(***************************************************************************)
(* State.                                                                  *)
(***************************************************************************)
VARIABLES
    ctxDone,          \* ctx.Done() is closed
    preCancelled,     \* ctx was already cancelled when Run was called
    store,            \* the kind of Store behind svc
    pc,               \* position of Run's own goroutine (setup, producer, shutdown)
    setup,            \* outcome of os.Open / header read
    ret,              \* value returned by Run
    workers,          \* runtime.NumCPU()
    ch,               \* the buffered channel of records
    chClosed,         \* close(ch) has run
    doneCh,           \* close(doneCh) has run
    wg,               \* sync.WaitGroup counter
    rowNum,           \* rowNum
    row,              \* the row the producer is validating
    rec,              \* the record the producer is sending
    totalRead, totalEnqueued, totalProcessed, totalFailed,
    totalInvalid, totalUpdated, totalDuplicates,
    wpc,              \* position of each worker goroutine
    wr,               \* r of each worker
    rpc,              \* position of the reporter goroutine
    upserts,          \* per Record, the number of Store calls made for it
    pulls,            \* per Record, the number of times a worker received it
    returned,         \* what the Store calls returned: the number of errors
                      \* and, for a nil error, of each UpsertResult
    summary,          \* number of processor_finished lines logged
    finished,         \* the processor_finished lines logged: their totals
    \* one pass of the producer's loop body over one row (SpecValidator)
    vpc,              \* "validate" before lines 197-224 ran on vrow; after, "next"
                      \* for a rejected row and, for a valid one, "sent", then
                      \* "pulled" (line 109), then "called" (line 122)
    vrow,             \* the row reader.Read() returned
    vline,            \* the rejection line logged for vrow
    vinvalid,         \* what the pass added to totalInvalid
    venqueued,        \* what the pass added to totalEnqueued
    vrec,             \* the record the pass sent
    vr,               \* r of the worker that received vrec
    vseg,             \* the Segmentation that worker handed to the Store
    \* the MySQL repository and its callers (SpecStore)
    table,            \* the rows of the segmentations table
    calls,            \* per caller, where its Upsert call is and what it returned
    now,              \* the database server's clock, time.Now().Unix()
    \* SegmentationService.GetByUserID over a repository (SpecService)
    db,               \* the records the repository holds, in its order
    spc,              \* "idle" before GetByUserID is called, "returned" after
    req,              \* the userID asked for
    resp,             \* the *SegmentationResponse returned
    serr,             \* the error returned
    \* the ticks of the progress reporter (SpecReporter)
    snap,             \* the counters the current tick has loaded so far
    progress,         \* the last progress line logged: its values
    lateProgress,     \* a progress line was logged after processor_finished
    \* one request GET /users/:user_id/segmentations (SpecHandler)
    hpc,              \* "idle" or "returned"
    hparam,           \* c.Param("user_id")
    hstatus,          \* the status answered, 0 before
    hbody,            \* the body answered
    \* what has happened since the cancellation signal
    sinceCancel       \* rows read, records counted and sent, and each
                      \* worker's receives and Store calls, with ctx done;
                      \* kept in the runs of SpecCancel only (on = TRUE)

counters == <<totalRead, totalEnqueued, totalProcessed, totalFailed,
              totalInvalid, totalUpdated, totalDuplicates>>

\* No rejection line.
NoLine == "none"

\* The variables of the other specifications of this module; Run never
\* touches them.
validatorVars == <<vpc, vrow, vline, vinvalid, venqueued, vrec, vr, vseg>>

storeVars == <<table, calls, now>>

serviceVars == <<db, spc, req, resp, serr>>

reporterVars == <<snap, progress, lateProgress>>

handlerVars == <<hpc, hparam, hstatus, hbody>>

cancelVars == <<sinceCancel>>

\* The variables no step of the pipeline writes but the steps that count in
\* sinceCancel.
bystanders ==
    <<validatorVars, storeVars, serviceVars, reporterVars, handlerVars>>

others == <<bystanders, cancelVars>>

vars == <<ctxDone, preCancelled, store, pc, setup, ret, workers, ch, chClosed,
          doneCh, wg, rowNum, row, rec, counters, wpc, wr, rpc,
          upserts, pulls, returned, summary, finished, others>>

WorkerIds == 1..MaxWorkers
Seqs == 1..MaxRows

\* QueueCap with room for one more record than workers*4.
QueueCap_OneMore(n) == n * QueueFactor + 1

\* cap(ch)
QueueCap(n) == n * QueueFactor

\* The zero models.Segmentation.
NoSeg == [UserID |-> 0, SegmentationType |-> <<>>, SegmentationName |-> <<>>,
          Data |-> <<>>]

\* No row is being classified.
ValidatorIdle ==
    /\ vpc = "next"
    /\ vrow = NoRow
    /\ vline = NoLine
    /\ vinvalid = 0
    /\ venqueued = 0
    /\ vrec = NoRec
    /\ vr = NoRec
    /\ vseg = NoSeg

\* Concurrent callers of the repository.
MaxCalls == 3
CallIds == 1..MaxCalls

\* A caller that has not called Upsert.
NoTriple == [userID |-> 0, segType |-> <<>>, name |-> <<>>]
IdleCall ==
    [pc |-> "idle", key |-> NoTriple, data |-> <<>>, existing |-> 0,
     result |-> "none", err |-> "nil", fault |-> FALSE, after |-> {}]

\* The table is empty and nobody has called the repository.
StoreIdle ==
    /\ table = {}
    /\ calls = [c \in CallIds |-> IdleCall]
    /\ now = 1

\* nil, as a *SegmentationResponse.
NoResp == [UserID |-> 0, Segmentations |-> <<>>, null |-> TRUE]

\* The repository is empty and GetByUserID has not been called.
ServiceIdle ==
    /\ db = <<>>
    /\ spc = "idle"
    /\ req = 0
    /\ resp = NoResp
    /\ serr = "nil"

\* No body.
NoBody == [error |-> "", result |-> NoResp]

\* No request has come in.
HandlerIdle ==
    /\ hpc = "idle"
    /\ hparam = <<>>
    /\ hstatus = 0
    /\ hbody = NoBody

\* Nothing has happened since the signal.
NoneSince(on) ==
    [on |-> on, read |-> 0, enqueued |-> 0, sent |-> 0,
     pulls |-> [w \in WorkerIds |-> 0],
     calls |-> [w \in WorkerIds |-> 0]]

\* The events since the signal are not kept.
CancelIdle == sinceCancel = NoneSince(FALSE)

\* sinceCancel after n more events of a kind, or of a kind and a worker.
Since(kind, n) ==
    IF sinceCancel.on /\ ctxDone
    THEN [sinceCancel EXCEPT ![kind] = @ + n]
    ELSE sinceCancel

SinceOf(kind, w, n) ==
    IF sinceCancel.on /\ ctxDone
    THEN [sinceCancel EXCEPT ![kind][w] = @ + n]
    ELSE sinceCancel

\* No tick has fired.
ReporterIdle ==
    /\ snap = <<>>
    /\ progress = <<>>
    /\ lateProgress = FALSE

\* Run's own state when it is called: the context, the Store and the number
\* of CPUs are the caller's and the machine's.
RunInit ==
    /\ ctxDone \in BOOLEAN
    /\ preCancelled = ctxDone
    /\ store \in StoreKinds
    /\ pc = "open"
    /\ setup = "pending"
    /\ ret = "none"
    /\ workers \in 1..MaxWorkers
    /\ ch = <<>>
    /\ chClosed = FALSE
    /\ doneCh = FALSE
    /\ wg = 0
    /\ rowNum = 0
    /\ row = NoRow
    /\ rec = NoRec
    /\ totalRead = 0 /\ totalEnqueued = 0 /\ totalProcessed = 0
    /\ totalFailed = 0 /\ totalInvalid = 0 /\ totalUpdated = 0
    /\ totalDuplicates = 0
    /\ wpc = [w \in WorkerIds |-> "unborn"]
    /\ wr = [w \in WorkerIds |-> NoRec]
    /\ rpc = "unborn"
    /\ upserts = [s \in Seqs |-> 0]
    /\ pulls = [s \in Seqs |-> 0]
    /\ returned = [k \in {"err"} \cup UpsertResults |-> 0]
    /\ summary = 0
    /\ finished = <<>>

\* The state Run is called in; the other specifications are at rest.
Init ==
    /\ RunInit
    /\ ValidatorIdle
    /\ StoreIdle
    /\ ServiceIdle
    /\ ReporterIdle
    /\ HandlerIdle
    /\ CancelIdle

(***************************************************************************)
(* The caller's cancellation (signal.NotifyContext in cmd/processor, a     *)
(* cancel() in the tests): it may come at any moment.                      *)
(***************************************************************************)
Cancel ==
    /\ ~ctxDone
    /\ ctxDone' = TRUE
    /\ UNCHANGED <<preCancelled, store, pc, setup, ret, workers, ch, chClosed,
                   doneCh, wg, rowNum, row, rec, counters, wpc, wr, rpc,
                   upserts, pulls, returned, summary, finished, others>>

(***************************************************************************)
(* Setup: worker.go 31-61.                                                 *)
(***************************************************************************)
\* os.Open(filepath), lines 32-37
OpenFile ==
    /\ pc = "open"
    /\ \E ok \in BOOLEAN :
          IF ok
          THEN /\ pc' = "header"
               /\ UNCHANGED <<setup, ret>>
          ELSE /\ setup' = "OpenError"
               /\ ret' = "OpenError"
               /\ pc' = "done"
    /\ UNCHANGED <<ctxDone, preCancelled, store, workers, ch, chClosed, doneCh,
                   wg, rowNum, row, rec, counters, wpc, wr, rpc,
                   upserts, pulls, returned, summary, finished, others>>

\* ReadHeader whose failure still logs the processor_finished line.
ReadHeader_LogsSummary ==
    /\ pc = "header"
    /\ \E ok \in BOOLEAN :
          IF ok
          THEN /\ setup' = "ok"
               /\ pc' = "spawn"
               /\ UNCHANGED <<ret, summary>>
          ELSE /\ setup' = "HeaderReadError"
               /\ ret' = "HeaderReadError"
               /\ summary' = summary + 1
               /\ pc' = "done"
    /\ UNCHANGED <<ctxDone, preCancelled, store, workers, ch, chClosed, doneCh,
                   wg, rowNum, row, rec, counters, wpc, wr, rpc,
                   upserts, pulls, returned, finished, others>>

\* reader.Read() of the header, lines 42-45
ReadHeader ==
    /\ pc = "header"
    /\ \E ok \in BOOLEAN :
          IF ok
          THEN /\ setup' = "ok"
               /\ pc' = "spawn"
               /\ UNCHANGED ret
          ELSE /\ setup' = "HeaderReadError"
               /\ ret' = "HeaderReadError"
               /\ pc' = "done"
    /\ UNCHANGED <<ctxDone, preCancelled, store, workers, ch, chClosed, doneCh,
                   wg, rowNum, row, rec, counters, wpc, wr, rpc,
                   upserts, pulls, returned, summary, finished, others>>

\* lines 47-174: the channel, the reporter goroutine, wg.Add(1) and go for
\* each worker, rowNum := 1
Spawn ==
    /\ pc = "spawn"
    /\ wg' = workers
    /\ wpc' = [w \in WorkerIds |-> IF w <= workers THEN "range" ELSE "unborn"]
    /\ rpc' = "select"
    /\ rowNum' = 1
    /\ pc' = "check"
    /\ UNCHANGED <<ctxDone, preCancelled, store, setup, ret, workers, ch,
                   chClosed, doneCh, row, rec, counters, wr, upserts,
                   pulls, returned, summary, finished, others>>

(***************************************************************************)
(* Producer: worker.go 176-225.                                            *)
(***************************************************************************)
\* AfterCheck without the case <-ctx.Done().
AfterCheck_IgnoresCancel(cancelled) == "read"

\* Where the producer goes from the select of lines 177-182.
AfterCheck(cancelled) == IF cancelled THEN "close" ELSE "read"

ProducerCheck ==
    /\ pc = "check"
    /\ pc' = AfterCheck(ctxDone)
    /\ UNCHANGED <<ctxDone, preCancelled, store, setup, ret, workers, ch,
                   chClosed, doneCh, wg, rowNum, row, rec, counters, wpc, wr, rpc, upserts, pulls, returned, summary, finished, others>>

\* What reader.Read() can return when n earlier calls did not return io.EOF:
\* io.EOF, another error, or a row.
ReadOutcomes(n) ==
    {[kind |-> "EOF", row |-> NoRow]} \cup
    (IF n < MaxRows
     THEN {[kind |-> "err", row |-> NoRow]} \cup
          {[kind |-> "row", row |-> r] : r \in RowSet}
     ELSE {})

\* ReadAdd with the atomic.AddUint64 of line 195 ahead of the error test of
\* line 187.
ReadAdd_CountsErrors(kind) == IF kind \in {"row", "err"} THEN 1 ELSE 0

\* line 195: what a Read adds to totalRead; the add is past both error
\* branches of lines 187-193
ReadAdd(kind) == IF kind = "row" THEN 1 ELSE 0

\* lines 187-195: where the producer goes after a Read: break on io.EOF,
\* continue on another error, the validation of the row otherwise
AfterRead(kind) ==
    CASE kind = "EOF" -> "close"
      [] kind = "err" -> "check"
      [] OTHER -> "validate"

\* lines 184-195: Read, rowNum++, the error branches, totalRead++
ProducerRead ==
    /\ pc = "read"
    /\ rowNum' = rowNum + 1
    /\ \E out \in ReadOutcomes(rowNum - 1) :
          /\ totalRead' = totalRead + ReadAdd(out.kind)
          /\ row' = IF out.kind = "row" THEN out.row ELSE row
          /\ pc' = AfterRead(out.kind)
    /\ sinceCancel' = Since("read", totalRead' - totalRead)
    /\ UNCHANGED <<ctxDone, preCancelled, store, setup, ret, workers, ch,
                   chClosed, doneCh, wg, rec, totalEnqueued, totalProcessed,
                   totalFailed, totalInvalid, totalUpdated, totalDuplicates,
                   wpc, wr, rpc, upserts, pulls, returned, summary, finished, bystanders>>

\* InvalidAdd with the atomic.AddUint64 of line 212 left out.
InvalidAdd_JsonUncounted(verdict) ==
    IF verdict \in {"invalid_row_size", "invalid_user_id"} THEN 1 ELSE 0

\* What the branch taken for a verdict adds to totalInvalid (lines 198, 205,
\* 212) and to totalEnqueued (line 217).
InvalidAdd(verdict) == IF verdict # "ok" THEN 1 ELSE 0

\* EnqueuedAdd with the atomic.AddUint64 of line 217 done twice.
EnqueuedAdd_Twice(verdict) == IF verdict = "ok" THEN 2 ELSE 0

EnqueuedAdd(verdict) == IF verdict = "ok" THEN 1 ELSE 0

\* lines 197-217: the three rejections (totalInvalid++, continue) or
\* totalEnqueued++ for a valid row
ProducerValidate ==
    /\ pc = "validate"
    /\ totalInvalid' = totalInvalid + InvalidAdd(RowVerdict(row))
    /\ totalEnqueued' = totalEnqueued + EnqueuedAdd(RowVerdict(row))
    /\ IF RowVerdict(row) # "ok"
       THEN /\ pc' = "check"
            /\ UNCHANGED rec
       ELSE /\ rec' = MakeRecord(row, totalEnqueued + 1)
            /\ pc' = "send"
    /\ row' = NoRow
    /\ sinceCancel' = Since("enqueued", totalEnqueued' - totalEnqueued)
    /\ UNCHANGED <<ctxDone, preCancelled, store, setup, ret, workers, ch,
                   chClosed, doneCh, wg, rowNum, totalRead, totalProcessed,
                   totalFailed, totalUpdated, totalDuplicates, wpc, wr,
                   rpc, upserts, pulls, returned, summary, finished, bystanders>>

\* ProducerSend that looks at ctx.Done() first and gives the record up when
\* the context is done.
ProducerSend_SkipsOnCancel ==
    /\ pc = "send"
    /\ IF ctxDone
       THEN UNCHANGED ch
       ELSE /\ Len(ch) < QueueCap(workers)
            /\ ch' = Append(ch, rec)
    /\ rec' = NoRec
    /\ pc' = "check"
    /\ UNCHANGED <<ctxDone, preCancelled, store, setup, ret, workers,
                   chClosed, doneCh, wg, rowNum, row, counters, wpc, wr,
                   rpc, upserts, pulls, returned, summary, finished, others>>

\* ProducerSend that goes on to the next Read without the select of lines
\* 177-182.
ProducerSend_NoRecheck ==
    /\ pc = "send"
    /\ Len(ch) < QueueCap(workers)
    /\ ch' = Append(ch, rec)
    /\ rec' = NoRec
    /\ pc' = "read"
    /\ sinceCancel' = Since("sent", 1)
    /\ UNCHANGED <<ctxDone, preCancelled, store, setup, ret, workers,
                   chClosed, doneCh, wg, rowNum, row, counters, wpc, wr,
                   rpc, upserts, pulls, returned, summary, finished, bystanders>>

\* lines 219-224: ch <- record{...}; blocks while the buffer is full
ProducerSend ==
    /\ pc = "send"
    /\ Len(ch) < QueueCap(workers)
    /\ ch' = Append(ch, rec)
    /\ rec' = NoRec
    /\ pc' = "check"
    /\ sinceCancel' = Since("sent", 1)
    /\ UNCHANGED <<ctxDone, preCancelled, store, setup, ret, workers,
                   chClosed, doneCh, wg, rowNum, row, counters, wpc, wr,
                   rpc, upserts, pulls, returned, summary, finished, bystanders>>

(***************************************************************************)
(* Shutdown: worker.go 227-246.                                            *)
(***************************************************************************)
\* CloseCh inside the loop: the producer goes on with the next row.
CloseCh_GoesOn ==
    /\ pc = "close"
    /\ chClosed' = TRUE
    /\ pc' = "check"
    /\ UNCHANGED <<ctxDone, preCancelled, store, setup, ret, workers, ch,
                   doneCh, wg, rowNum, row, rec, counters, wpc, wr, rpc,
                   upserts, pulls, returned, summary, finished, others>>

\* line 228
CloseCh ==
    /\ pc = "close"
    /\ chClosed' = TRUE
    /\ pc' = "wait"
    /\ UNCHANGED <<ctxDone, preCancelled, store, setup, ret, workers, ch,
                   doneCh, wg, rowNum, row, rec, counters, wpc, wr, rpc,
                   upserts, pulls, returned, summary, finished, others>>

\* WaitOver of a wg.Wait() that returns at once.
WaitOver_NoWait(n) == TRUE

\* line 229: wg.Wait() returns when the counter is zero
WaitOver(n) == n = 0

\* line 229
WaitWorkers ==
    /\ pc = "wait"
    /\ WaitOver(wg)
    /\ pc' = "closeDone"
    /\ UNCHANGED <<ctxDone, preCancelled, store, setup, ret, workers, ch,
                   chClosed, doneCh, wg, rowNum, row, rec, counters, wpc, wr, rpc, upserts, pulls, returned, summary, finished, others>>

\* line 230
CloseDone ==
    /\ pc = "closeDone"
    /\ doneCh' = TRUE
    /\ pc' = "summary"
    /\ UNCHANGED <<ctxDone, preCancelled, store, setup, ret, workers, ch,
                   chClosed, wg, rowNum, row, rec, counters, wpc, wr,
                   rpc, upserts, pulls, returned, summary, finished, others>>

\* RunResult returning ctx.Err() after a cancellation.
RunResult_CtxErr(cancelled) == IF cancelled THEN "context.Canceled" ELSE "nil"

\* line 246: what Run returns once it is past setup
RunResult(cancelled) == "nil"

\* lines 234-245: the arguments of the processor_finished line, read when
\* the line is printed
SummaryLine ==
    [read |-> totalRead, enqueued |-> totalEnqueued,
     inserted |-> totalProcessed, updated |-> totalUpdated,
     duplicates |-> totalDuplicates, failed |-> totalFailed,
     invalid |-> totalInvalid]

\* lines 232-246: the processor_finished line, return nil
Finish ==
    /\ pc = "summary"
    /\ summary' = summary + 1
    /\ finished' = Append(finished, SummaryLine)
    /\ ret' = RunResult(ctxDone)
    /\ pc' = "done"
    /\ UNCHANGED <<ctxDone, preCancelled, store, setup, workers, ch, chClosed,
                   doneCh, wg, rowNum, row, rec, counters, wpc, wr, rpc,
                   upserts, pulls, returned, others>>

(***************************************************************************)
(* Workers: worker.go 104-169.                                             *)
(***************************************************************************)
\* Dequeue that leaves the received record in the buffer.
Dequeue_KeepsHead(q) == q

\* The buffer after a receive took its first record.
Dequeue(q) == Tail(q)

\* line 109, for r := range ch: receive the oldest record, or leave the loop
\* (deferred wg.Done) when the channel is closed and empty; blocks otherwise
WorkerRecv(w) ==
    /\ wpc[w] = "range"
    /\ IF ch # <<>>
       THEN /\ wr' = [wr EXCEPT ![w] = Head(ch)]
            /\ ch' = Dequeue(ch)
            /\ pulls' = [pulls EXCEPT ![Head(ch).seq] = @ + 1]
            /\ wpc' = [wpc EXCEPT ![w] = "check"]
            /\ UNCHANGED wg
       ELSE /\ chClosed
            /\ wpc' = [wpc EXCEPT ![w] = "exited"]
            /\ wg' = wg - 1
            /\ UNCHANGED <<wr, ch, pulls>>
    /\ sinceCancel' = SinceOf("pulls", w, IF ch # <<>> THEN 1 ELSE 0)
    /\ UNCHANGED <<ctxDone, preCancelled, store, pc, setup, ret, workers,
                   chClosed, doneCh, rowNum, row, rec, counters, rpc,
                   upserts, returned, summary, finished, bystanders>>

\* WorkerCheck without the case <-ctx.Done().
WorkerCheck_IgnoresCancel(w) ==
    /\ wpc[w] = "check"
    /\ wpc' = [wpc EXCEPT ![w] = "call"]
    /\ UNCHANGED <<ctxDone, preCancelled, store, pc, setup, ret, workers, ch,
                   chClosed, doneCh, wg, rowNum, row, rec, counters, rpc, wr,
                   upserts, pulls, returned, summary, finished, others>>

\* lines 110-114: return (deferred wg.Done) when ctx is done
WorkerCheck(w) ==
    /\ wpc[w] = "check"
    /\ IF ctxDone
       THEN /\ wpc' = [wpc EXCEPT ![w] = "exited"]
            /\ wr' = [wr EXCEPT ![w] = NoRec]
            /\ wg' = wg - 1
       ELSE /\ wpc' = [wpc EXCEPT ![w] = "call"]
            /\ UNCHANGED <<wr, wg>>
    /\ UNCHANGED <<ctxDone, preCancelled, store, pc, setup, ret, workers, ch,
                   chClosed, doneCh, rowNum, row, rec, counters, rpc,
                   upserts, pulls, returned, summary, finished, others>>

\* OutcomeCounter without the case repository.UpsertNoOp of the switch.
OutcomeCounter_NoOpUncounted(r) ==
    IF r.err THEN "totalFailed"
    ELSE CASE r.result = UpsertInserted -> "totalProcessed"
           [] r.result = UpsertUpdated  -> "totalUpdated"
           [] r.result = UpsertNoOp     -> "none"

\* OutcomeCounter switching on the result without testing err first.
OutcomeCounter_ErrUnchecked(r) ==
    CASE r.result = UpsertInserted -> "totalProcessed"
      [] r.result = UpsertUpdated  -> "totalUpdated"
      [] r.result = UpsertNoOp     -> "totalDuplicates"

\* OutcomeCounter with the add of case repository.UpsertUpdated made to
\* totalProcessed.
OutcomeCounter_UpdatedAsInserted(r) ==
    IF r.err THEN "totalFailed"
    ELSE CASE r.result = UpsertInserted -> "totalProcessed"
           [] r.result = UpsertUpdated  -> "totalProcessed"
           [] r.result = UpsertNoOp     -> "totalDuplicates"

\* OutcomeCounter without the atomic.AddUint64 of totalFailed (line 124).
OutcomeCounter_FailedUncounted(r) ==
    IF r.err THEN "none"
    ELSE CASE r.result = UpsertInserted -> "totalProcessed"
           [] r.result = UpsertUpdated  -> "totalUpdated"
           [] r.result = UpsertNoOp     -> "totalDuplicates"

\* lines 123-166: the counter a returned (result, err) is added to
OutcomeCounter(r) ==
    IF r.err THEN "totalFailed"
    ELSE CASE r.result = UpsertInserted -> "totalProcessed"
           [] r.result = UpsertUpdated  -> "totalUpdated"
           [] r.result = UpsertNoOp     -> "totalDuplicates"

\* AfterCount with a return in place of the continue of line 133.
AfterCount_ExitOnError(r) == IF r.err THEN "exited" ELSE "range"

\* Where the worker goes after the switch: continue (line 133) and the end
\* of the loop body both lead back to the range of line 109.
AfterCount(r) == "range"

\* The number of Store calls the loop body makes for the record in hand.
CallsPerRecord(r) == 1

\* lines 123-167: what worker w does with the (result, err) of its Store
\* call: one atomic.AddUint64, then back to the range
CountOutcome(w, r) ==
    /\ LET c == OutcomeCounter(r) IN
          /\ totalFailed' = totalFailed + (IF c = "totalFailed" THEN 1 ELSE 0)
          /\ totalProcessed' =
                totalProcessed + (IF c = "totalProcessed" THEN 1 ELSE 0)
          /\ totalUpdated' =
                totalUpdated + (IF c = "totalUpdated" THEN 1 ELSE 0)
          /\ totalDuplicates' =
                totalDuplicates + (IF c = "totalDuplicates" THEN 1 ELSE 0)
          /\ upserts' = [upserts EXCEPT ![wr[w].seq] = @ + CallsPerRecord(r)]
          /\ returned' = [returned EXCEPT
                             ![IF r.err THEN "err" ELSE r.result] = @ + 1]
          /\ wpc' = [wpc EXCEPT ![w] = AfterCount(r)]
          /\ wg' = IF AfterCount(r) = "exited" THEN wg - 1 ELSE wg
    /\ wr' = [wr EXCEPT ![w] = NoRec]
    /\ sinceCancel' = SinceOf("calls", w, 1)

\* lines 116-167: svc.Create(ctx, &seg), which is repo.Upsert(ctx, seg), then
\* one atomic.AddUint64 chosen by (result, err), then back to the range.  The
\* Store of this model keeps no state and the add commutes with every step
\* of the other goroutines, so the call and the add are one step.
WorkerUpsert(w) ==
    /\ wpc[w] = "call"
    /\ \E r \in StoreReturns(store, ctxDone) : CountOutcome(w, r)
    /\ UNCHANGED <<ctxDone, preCancelled, store, pc, setup, ret, workers, ch,
                   chClosed, doneCh, rowNum, row, rec, totalRead,
                   totalEnqueued, totalInvalid, rpc, pulls, summary, finished, bystanders>>

(***************************************************************************)
(* Progress reporter: worker.go 66-99, the two branches that end it.       *)
(***************************************************************************)
\* case <-doneCh: return
ReporterDone ==
    /\ rpc = "select"
    /\ doneCh
    /\ rpc' = "exited"
    /\ UNCHANGED <<ctxDone, preCancelled, store, pc, setup, ret, workers, ch,
                   chClosed, doneCh, wg, rowNum, row, rec, counters, wpc, wr, upserts, pulls, returned, summary, finished, others>>

\* case <-ctx.Done(): log processor_context_cancelled, return
ReporterCancelled ==
    /\ rpc = "select"
    /\ ctxDone
    /\ rpc' = "exited"
    /\ UNCHANGED <<ctxDone, preCancelled, store, pc, setup, ret, workers, ch,
                   chClosed, doneCh, wg, rowNum, row, rec, counters, wpc, wr, upserts, pulls, returned, summary, finished, others>>

Next ==
    \/ Cancel
    \/ OpenFile
    \/ ReadHeader
    \/ Spawn
    \/ ProducerCheck
    \/ ProducerRead
    \/ ProducerValidate
    \/ ProducerSend
    \/ CloseCh
    \/ WaitWorkers
    \/ CloseDone
    \/ Finish
    \/ \E w \in WorkerIds : WorkerRecv(w)
    \/ \E w \in WorkerIds : WorkerCheck(w)
    \/ \E w \in WorkerIds : WorkerUpsert(w)
    \/ ReporterDone
    \/ ReporterCancelled

Spec == Init /\ [][Next]_vars

(***************************************************************************)
(* Counter accounting.                                                     *)
(***************************************************************************)
Outcomes == totalProcessed + totalUpdated + totalDuplicates + totalFailed

\* C1, as stated: in every reachable state read = invalid + enqueued.
C1_ReadIsInvalidPlusEnqueuedAlways ==
    totalRead = totalInvalid + totalEnqueued

\* C1, amended: read = invalid + enqueued in every state except while the
\* producer is between the increment of read (line 195) and the increment of
\* invalid or enqueued for the same row, where read = invalid + enqueued + 1.
C1_ReadAccounting ==
    totalRead = totalInvalid + totalEnqueued + (IF pc = "validate" THEN 1 ELSE 0)

C1_Witness ==
    /\ pc = "validate"
    /\ totalInvalid >= 1
    /\ totalEnqueued >= 1

\* C2: when a run that was never cancelled returns, every enqueued Record
\* has been pulled once, handed to the Store once and counted in one of the
\* four outcome counters, and the queue is empty.
C2_AllAccountedWithoutCancel ==
    (pc = "done" /\ setup = "ok" /\ ~ctxDone) =>
        /\ totalEnqueued = Outcomes
        /\ ch = <<>>
        /\ \A s \in 1..totalEnqueued : pulls[s] = 1 /\ upserts[s] = 1

C2_Witness ==
    /\ pc = "done" /\ setup = "ok" /\ ~ctxDone
    /\ totalEnqueued >= 4
    /\ totalProcessed >= 1 /\ totalUpdated >= 1
    /\ totalDuplicates >= 1 /\ totalFailed >= 1

C4_ProducerNeverStuck ==
    ~ ( /\ pc = "send"
        /\ Len(ch) = QueueCap(workers)
        /\ \A w \in 1..workers : wpc[w] = "exited" )

C7_SetupErrorBeforeStart ==
    (ret \notin {"none", "nil"}) =>
        /\ pc = "done"
        /\ ret = setup
        /\ setup \in {"OpenError", "HeaderReadError"}
        /\ \A w \in WorkerIds : wpc[w] = "unborn"
        /\ rpc = "unborn"
        /\ wg = 0
        /\ rowNum = 0
        /\ totalRead = 0 /\ totalInvalid = 0 /\ totalEnqueued = 0
        /\ Outcomes = 0
        /\ ch = <<>> /\ ~chClosed /\ ~doneCh
        /\ \A s \in Seqs : pulls[s] = 0 /\ upserts[s] = 0
        /\ summary = 0

C7_Witness ==
    pc = "done" /\ ret = "HeaderReadError"

\* C8: a run that is not cancelled and whose Store fails every upsert ends
\* with failed = enqueued, inserted = updated = noop = 0, a nil error and the
\* summary line logged.
C8_AlwaysFailingStore ==
    (store = "alwaysErr" /\ ~ctxDone /\ pc = "done" /\ setup = "ok") =>
        /\ totalFailed = totalEnqueued
        /\ totalProcessed = 0 /\ totalUpdated = 0 /\ totalDuplicates = 0
        /\ ret = "nil"
        /\ summary = 1

C8_Witness ==
    /\ store = "alwaysErr" /\ ~ctxDone /\ pc = "done" /\ setup = "ok"
    /\ totalEnqueued >= 3
    /\ totalFailed = totalEnqueued

(***************************************************************************)
(* Single steps.                                                           *)
(***************************************************************************)
\* The step is worker w's Store call and that call returned an error.
StoreErrorStep(w) ==
    /\ wpc[w] = "call"
    /\ wpc'[w] # "call"
    /\ returned'["err"] = returned["err"] + 1

\* C9: a Store call that returns an error adds one to failed and to nothing
\* else, whatever result came with the error; the Record has then been handed
\* to the Store exactly once (and no Record is ever handed to it twice), is
\* neither back in the queue nor in a worker's hands, and the worker is back
\* at the range, not exited.
C9_StoreErrorStep ==
    /\ [](\A s \in Seqs : upserts[s] <= 1)
    /\ [][ \A w \in WorkerIds :
             StoreErrorStep(w) =>
                /\ totalFailed' = totalFailed + 1
                /\ UNCHANGED <<totalProcessed, totalUpdated, totalDuplicates,
                               totalRead, totalInvalid, totalEnqueued>>
                /\ upserts'[wr[w].seq] = 1
                /\ ch' = ch
                /\ \A i \in 1..Len(ch') : ch'[i].seq # wr[w].seq
                /\ \A v \in WorkerIds : wr'[v].seq # wr[w].seq
                /\ wpc'[w] = "range"
                /\ wg' = wg ]_vars

C9_Witness ==
    /\ returned["err"] >= 1
    /\ totalFailed = returned["err"]
    /\ \E w \in WorkerIds : wpc[w] = "call" /\ upserts[wr[w].seq] = 0

\* The rows of RowSet with fewer than 4 fields, a non-numeric subject id or
\* a payload that is not JSON.
RejectedRows ==
    { <<F_7, F_drug, F_Aspirin>>,
      <<F_abc, F_drug, F_Aspirin, F_obj>>,
      <<F_7, F_drug, F_Aspirin, F_notjson>>,
      <<F_abc, F_drug>>,
      <<F_abc, F_drug, F_Aspirin, F_notjson>> }

\* C10: reading a row adds one to read and to nothing else; validating a
\* rejected row adds one to invalid and to nothing else, puts nothing in the
\* queue, makes no Store call, and the producer goes on to the next row.
C10_RejectedRowStep ==
    [][ /\ (pc = "read" /\ pc' = "validate") =>
              /\ totalRead' = totalRead + 1
              /\ UNCHANGED <<totalInvalid, totalEnqueued, totalFailed,
                             totalProcessed, totalUpdated, totalDuplicates>>
        /\ (pc = "validate" /\ pc' # "validate" /\ row \in RejectedRows) =>
              /\ totalInvalid' = totalInvalid + 1
              /\ UNCHANGED <<totalRead, totalEnqueued, totalFailed,
                             totalProcessed, totalUpdated, totalDuplicates>>
              /\ UNCHANGED <<ch, rec, upserts, pulls, returned>>
              /\ pc' = "check" ]_vars

C10_Witness ==
    /\ totalInvalid >= 3
    /\ totalEnqueued >= 1
    /\ pc = "validate"
    /\ row \in RejectedRows
    /\ \A s \in Seqs : upserts[s] = 0

\* C12: a row whose read fails with an error other than end of input is
\* skipped: the step changes no counter and nothing in the queue, and takes
\* the producer back to the top of its loop, from where, unless the run was
\* cancelled, it reads the next row.  End of input changes no counter either
\* and takes the producer out of the loop to the close of the queue; the run
\* then returns nil.
C12_ReadFailureStep ==
    /\ (pc = "read" /\ pc' = "check") =>
          /\ counters' = counters
          /\ rowNum' = rowNum + 1
          /\ ch' = ch /\ chClosed' = chClosed
    /\ (pc = "check" /\ ~ctxDone /\ pc' # pc) => pc' = "read"
    /\ (pc = "read" /\ pc' = "close") =>
          /\ counters' = counters
          /\ ch' = ch
    /\ (pc = "close" /\ pc' # pc) => (pc' = "wait" /\ chClosed')

C12_ReadFailures ==
    /\ [](pc = "done" /\ setup = "ok" => ret = "nil" /\ chClosed)
    /\ [][C12_ReadFailureStep]_vars

\* An uncancelled run has returned nil after at least one row was read, at
\* least one read failed and the input ended: rowNum - 1 is the number of
\* Read calls, of which one returned io.EOF and totalRead returned a row.
C12_Witness ==
    /\ pc = "done"
    /\ ~ctxDone
    /\ ret = "nil"
    /\ chClosed
    /\ totalRead >= 1
    /\ rowNum - 1 >= totalRead + 2

\* C13: the queue never holds more than 4 x N records; while it holds 4 x N
\* the producer's send does not complete, the only change to the queue being
\* a worker's pull; and while the producer holds a record to send it reads
\* no further row.
C13_SendStep ==
    pc = "send" =>
        /\ rowNum' = rowNum
        /\ totalRead' = totalRead
        /\ Len(ch) = 4 * workers =>
              /\ pc' = "send"
              /\ rec' = rec
              /\ ch' \in {ch, Tail(ch)}

C13_BoundedBlockingQueue ==
    /\ [](Len(ch) <= 4 * workers)
    /\ [][C13_SendStep]_vars

\* The producer is waiting to send a record on a full queue.
C13_Witness ==
    /\ pc = "send"
    /\ rec # NoRec
    /\ Len(ch) = 4 * workers

\* C17: in every run that got past setup the processor_finished line is
\* logged exactly once: never twice, once when Run has returned, and until
\* it is logged the run can still get to it (Run's goroutine or a worker
\* has a step to take).  It is logged only when all N workers have exited,
\* and no counter changes once it is logged, so the totals it reports are
\* the final ones.
C17_SummaryExactlyOnce ==
    /\ [](/\ summary <= 1
          /\ (pc = "done" /\ setup = "ok") => summary = 1
          /\ (setup = "ok" /\ summary = 0) =>
                ENABLED ( \/ Spawn \/ ProducerCheck \/ ProducerRead
                          \/ ProducerValidate \/ ProducerSend \/ CloseCh
                          \/ WaitWorkers \/ CloseDone \/ Finish
                          \/ \E w \in WorkerIds : WorkerRecv(w)
                          \/ \E w \in WorkerIds : WorkerCheck(w)
                          \/ \E w \in WorkerIds : WorkerUpsert(w) )
          /\ summary = 1 =>
                /\ \A w \in 1..workers : wpc[w] = "exited"
                /\ finished = <<SummaryLine>>)
    /\ [][summary = 1 => counters' = counters]_vars

\* C22: a worker looks at the cancellation signal before it takes a record
\* from the queue, so every record that was taken from the queue and is no
\* longer in a worker's hands has had its Store call.
C22_NoPulledRecordDropped ==
    \A s \in Seqs :
        (pulls[s] >= 1 /\ \A w \in WorkerIds : wr[w].seq # s) => upserts[s] >= 1

\* C23: once cancellation is signalled while the producer is reading,
\* validating or waiting to send a row, that row's record is not sent and
\* enqueued does not grow for it.
C23_NoSendAfterCancel ==
    [][(ctxDone /\ pc \in {"read", "validate", "send"}) =>
          /\ totalEnqueued' = totalEnqueued
          /\ Len(ch') <= Len(ch)]_vars

\* C24: in every state enqueued is the number of records the queue has
\* accepted: those in its buffer plus those the workers have taken.
C24_EnqueuedIsAccepted ==
    totalEnqueued =
        Len(ch) + Cardinality({sn \in Seqs \X (1..MaxRows) : sn[2] <= pulls[sn[1]]})

\* C25: the queue is closed by the producer once, after its loop ended on
\* end of input (from the read) or on a cancellation it observed (from the
\* check at the top of the loop); it is not closed while a record waits to be
\* sent, it stays closed, and nothing is sent to it once closed.
C25_CloseStep ==
    /\ (pc' = "close" /\ pc # "close") =>
          (pc = "read" \/ (pc = "check" /\ ctxDone))
    /\ (chClosed' /\ ~chClosed) => (pc = "close" /\ rec = NoRec)
    /\ chClosed => (chClosed' /\ Len(ch') <= Len(ch))

C25_ClosedOnceAfterLoop ==
    /\ [](chClosed => (pc \in {"wait", "closeDone", "summary", "done"}
                       /\ rec = NoRec))
    /\ [][C25_CloseStep]_vars

\* The queue was closed after a cancellation, with records still in it.
C25_Witness ==
    /\ chClosed
    /\ ctxDone /\ ~preCancelled
    /\ Len(ch) >= 2
    /\ pc = "wait"

\* The lifecycle state of a run, from where Run's goroutine is: Running in
\* the producer loop, Draining from the exit of the loop to the return of
\* wg.Wait(), Finished after it.
C26_Phase ==
    CASE pc \in {"open", "header", "spawn"} -> "Setup"
      [] pc \in {"check", "read", "validate", "send"} -> "Running"
      [] pc \in {"close", "wait"} -> "Draining"
      [] pc \in {"closeDone", "summary", "done"} ->
            IF setup = "ok" THEN "Finished" ELSE "SetupFailed"

\* C26: the lifecycle only moves Running -> Draining -> Finished.  Draining
\* is entered from the read (end of input) or from the cancellation check
\* that saw the signal; from then on no row is read and no record is
\* enqueued; Finished is entered only when all N workers have exited; no
\* step goes back.
C26_LifecycleStep ==
    /\ (C26_Phase = "Running" /\ C26_Phase' # "Running") =>
          /\ C26_Phase' = "Draining"
          /\ pc = "read" \/ (pc = "check" /\ ctxDone)
    /\ C26_Phase = "Draining" =>
          /\ C26_Phase' \in {"Draining", "Finished"}
          /\ C26_Phase' = "Finished" => \A w \in 1..workers : wpc[w] = "exited"
    /\ C26_Phase = "Finished" => C26_Phase' = "Finished"
    /\ C26_Phase \in {"Draining", "Finished"} =>
          /\ rowNum' = rowNum /\ totalRead' = totalRead
          /\ totalEnqueued' = totalEnqueued /\ totalInvalid' = totalInvalid
          /\ Len(ch') <= Len(ch)

C26_Lifecycle ==
    /\ [](C26_Phase = "Finished" => \A w \in 1..workers : wpc[w] = "exited")
    /\ [][C26_LifecycleStep]_vars

\* A run cancelled on the way, with records enqueued, is Finished.
C26_Witness ==
    /\ C26_Phase = "Finished"
    /\ pc = "done"
    /\ ctxDone /\ ~preCancelled
    /\ totalEnqueued >= 2
    /\ Outcomes >= 1

\* C29: a Store call that returns without error makes the worker add one to
\* exactly one counter: inserted for Inserted, updated for Updated,
\* duplicates for NoOp; the other counters, failed included, stay.
C29_OutcomeStep ==
    \A k \in UpsertResults :
        returned'[k] = returned[k] + 1 =>
            /\ totalProcessed' =
                  totalProcessed + (IF k = UpsertInserted THEN 1 ELSE 0)
            /\ totalUpdated' = totalUpdated + (IF k = UpsertUpdated THEN 1 ELSE 0)
            /\ totalDuplicates' =
                  totalDuplicates + (IF k = UpsertNoOp THEN 1 ELSE 0)
            /\ totalFailed' = totalFailed
            /\ totalRead' = totalRead /\ totalEnqueued' = totalEnqueued
            /\ totalInvalid' = totalInvalid

C29_OneCounterPerOutcome == [][C29_OutcomeStep]_vars

\* Store calls have returned each of the three outcomes without error.
C29_Witness ==
    /\ returned[UpsertInserted] >= 1
    /\ returned[UpsertUpdated] >= 1
    /\ returned[UpsertNoOp] >= 1
    /\ totalProcessed >= 1 /\ totalUpdated >= 1 /\ totalDuplicates >= 1

\* C31, as stated: with the store that fails only when it is handed a
\* cancelled context and returns Inserted otherwise, failed stays 0 in every
\* run, cancelled or not.
C31_CancelNeverCountsFailed ==
    store = "ctxAware" => totalFailed = 0

\* C34: in every state of every run inserted + updated + duplicates + failed
\* <= enqueued <= read and invalid <= read, no counter is negative, and a
\* step leaves each counter as it is or adds exactly one to it.
C34_CounterStep ==
    \A i \in 1..Len(counters) :
        counters'[i] = counters[i] \/ counters'[i] = counters[i] + 1

C34_CounterOrder ==
    /\ []( /\ Outcomes <= totalEnqueued
           /\ totalEnqueued <= totalRead
           /\ totalInvalid <= totalRead
           /\ \A i \in 1..Len(counters) : counters[i] >= 0 )
    /\ [][C34_CounterStep]_vars

\* A cancelled run has returned with rows rejected, records stored and
\* failed, and records enqueued that were never stored.
C34_Witness ==
    /\ pc = "done" /\ setup = "ok" /\ ctxDone
    /\ totalInvalid >= 1
    /\ totalProcessed >= 1 /\ totalFailed >= 1
    /\ Outcomes < totalEnqueued

\* The records a worker pulled and gave up on cancellation, without a Store
\* call.
C35_Dropped == {s \in 1..totalEnqueued : pulls[s] = 1 /\ upserts[s] = 0}

\* The records still in the queue.
C35_Buffered == {s \in 1..totalEnqueued : \E i \in 1..Len(ch) : ch[i].seq = s}

\* The records handed to the Store.
C35_Stored == {s \in 1..totalEnqueued : upserts[s] = 1}

\* C35: when a cancelled run returns, every enqueued Record is in exactly
\* one of three groups: handed to the Store and counted, pulled and given
\* up on cancellation, or still in the closed queue; enqueued minus the four
\* outcome counters is the size of the last two groups.
C35_CancelledRunPartition ==
    (pc = "done" /\ setup = "ok" /\ ctxDone) =>
        /\ chClosed
        /\ C35_Stored \cup C35_Dropped \cup C35_Buffered = 1..totalEnqueued
        /\ C35_Stored \cap C35_Dropped = {}
        /\ C35_Stored \cap C35_Buffered = {}
        /\ C35_Dropped \cap C35_Buffered = {}
        /\ Cardinality(C35_Stored) = Outcomes
        /\ totalEnqueued - Outcomes =
              Cardinality(C35_Dropped) + Cardinality(C35_Buffered)

\* A cancelled run has returned with records in each of the three groups.
C35_Witness ==
    /\ pc = "done" /\ setup = "ok" /\ ctxDone
    /\ C35_Stored # {} /\ C35_Dropped # {} /\ C35_Buffered # {}

\* The Store calls made so far.
C36_StoreCalls ==
    returned["err"] + returned[UpsertInserted] + returned[UpsertUpdated]
        + returned[UpsertNoOp]

\* C36: when Run returns, cancelled or not, inserted + updated + duplicates
\* + failed is the number of Store calls made, each call being counted in
\* the counter of its outcome.
C36_EveryCallCounted ==
    (pc = "done" /\ setup = "ok") =>
        /\ Outcomes = C36_StoreCalls
        /\ totalFailed = returned["err"]
        /\ totalProcessed = returned[UpsertInserted]
        /\ totalUpdated = returned[UpsertUpdated]
        /\ totalDuplicates = returned[UpsertNoOp]
        /\ \A s \in Seqs : upserts[s] <= 1
        /\ Cardinality({s \in Seqs : upserts[s] = 1}) = Outcomes

\* A cancelled run has returned after a Store call that was started before
\* the signal and others; calls of every outcome were made.
C36_Witness ==
    /\ pc = "done" /\ setup = "ok" /\ ctxDone
    /\ returned["err"] >= 1 /\ returned[UpsertInserted] >= 1
    /\ returned[UpsertNoOp] >= 1
    /\ Outcomes < totalEnqueued

(***************************************************************************)
(* SpecValidator: one pass of the producer's loop body, worker.go 195-224, *)
(* over every row shape, with the line it logs kept.                       *)
(***************************************************************************)
F_empty == <<>>
F_neg   == <<"-", "7">>

\* Texts for field 0 and for field 3.
IdFields == {F_7, F_7_sp, F_42, F_abc, F_neg, F_empty}
PayloadFields == {F_obj, F_obj_sp, F_obj_v1, F_notjson, F_empty}

\* Rows of every arity from 0 to 5 (FieldsPerRecord = -1).
ValidatorRows ==
    {<<>>}
    \cup {<<a>> : a \in IdFields}
    \cup {<<a, F_drug>> : a \in IdFields}
    \cup {<<a, F_drug_sp, F_Aspirin>> : a \in IdFields}
    \cup {<<a, F_drug, F_Aspirin, p>> : a \in IdFields, p \in PayloadFields}
    \cup {<<a, F_drug_sp, F_Insulin_sp, p, F_extra>> :
              a \in IdFields, p \in PayloadFields}

\* reader.Read() returned vrow (line 184, err = nil)
ValidatorInit ==
    /\ RunInit /\ ~ctxDone /\ store = "any" /\ workers = 1
    /\ vpc = "validate"
    /\ vrow \in ValidatorRows
    /\ vline = NoLine
    /\ vinvalid = 0
    /\ venqueued = 0
    /\ vrec = NoRec
    /\ vr = NoRec
    /\ vseg = NoSeg
    /\ StoreIdle
    /\ ServiceIdle
    /\ ReporterIdle
    /\ HandlerIdle
    /\ CancelIdle

\* lines 197-224 on vrow: the rejection counted and logged, or the record
\* counted and sent
ValidateRow ==
    /\ vpc = "validate"
    /\ LET verdict == RowVerdict(vrow) IN
          /\ vline' = IF verdict = "ok" THEN NoLine ELSE verdict
          /\ vinvalid' = vinvalid + InvalidAdd(verdict)
          /\ venqueued' = venqueued + EnqueuedAdd(verdict)
          /\ vrec' = IF verdict = "ok" THEN MakeRecord(vrow, 1) ELSE NoRec
          /\ vpc' = IF verdict = "ok" THEN "sent" ELSE "next"
    /\ UNCHANGED <<vrow, vr, vseg, ctxDone, preCancelled, store, pc, setup, ret,
                   workers, ch, chClosed, doneCh, wg, rowNum, row, rec,
                   counters, wpc, wr, rpc, upserts, pulls, returned, summary,
                   finished, storeVars, serviceVars,
                   reporterVars, handlerVars,
                   cancelVars>>

\* line 109: a worker's range receives the record
WorkerTakes ==
    /\ vpc = "sent"
    /\ vr' = vrec
    /\ vpc' = "pulled"
    /\ UNCHANGED <<vrow, vline, vinvalid, venqueued, vrec, vseg, ctxDone,
                   preCancelled, store, pc, setup, ret, workers, ch, chClosed,
                   doneCh, wg, rowNum, row, rec, counters, wpc, wr, rpc,
                   upserts, pulls, returned, summary, finished, storeVars,
                   serviceVars,
                   reporterVars, handlerVars,
                   cancelVars>>

\* lines 116-121: the models.Segmentation built from r
MakeSegmentation(r) ==
    [UserID |-> r.userID, SegmentationType |-> r.segType,
     SegmentationName |-> r.name, Data |-> r.data]

\* lines 116-122: svc.Create(ctx, &seg)
WorkerCreates ==
    /\ vpc = "pulled"
    /\ vseg' = MakeSegmentation(vr)
    /\ vpc' = "called"
    /\ UNCHANGED <<vrow, vline, vinvalid, venqueued, vrec, vr, ctxDone,
                   preCancelled, store, pc, setup, ret, workers, ch, chClosed,
                   doneCh, wg, rowNum, row, rec, counters, wpc, wr, rpc,
                   upserts, pulls, returned, summary, finished, storeVars,
                   serviceVars,
                   reporterVars, handlerVars,
                   cancelVars>>

ValidatorNext ==
    \/ ValidateRow
    \/ WorkerTakes
    \/ WorkerCreates

SpecValidator == ValidatorInit /\ [][ValidatorNext]_vars

\* The texts of IdFields that are a uint64 once trimmed, and the texts of
\* PayloadFields that are JSON once trimmed.
C11_UintTexts == {F_7, F_7_sp, F_42}
C11_JsonTexts == {F_obj, F_obj_sp, F_obj_v1}

\* C11: a row is classified by the first rule it breaks, in the order arity,
\* subject id, payload: fewer than 4 fields is logged as invalid_row_size;
\* otherwise a field 0 that is no uint64 once trimmed as invalid_user_id;
\* otherwise a field 3 that is no JSON once trimmed as invalid_json;
\* otherwise nothing is logged and the record is sent.  Whatever the number
\* of rules the row breaks, one line is logged and invalid grows by one.
C11_FirstRuleOnly ==
    vpc # "validate" =>
        /\ vline = ( IF Len(vrow) < 4 THEN "invalid_row_size"
                     ELSE IF vrow[1] \notin C11_UintTexts THEN "invalid_user_id"
                     ELSE IF vrow[4] \notin C11_JsonTexts THEN "invalid_json"
                     ELSE NoLine )
        /\ vinvalid = (IF vline = NoLine THEN 0 ELSE 1)
        /\ venqueued = 1 - vinvalid
        /\ (vrec # NoRec) = (vline = NoLine)

\* A row of 4 fields with a bad subject id and a bad payload has been
\* classified: under the subject id rule, once.
C11_Witness ==
    /\ vpc = "next"
    /\ Len(vrow) >= 4
    /\ vrow[1] = F_abc
    /\ vrow[4] = F_notjson
    /\ vline = "invalid_user_id"
    /\ vinvalid = 1

\* What the field texts of ValidatorRows stand for: the number of an id
\* text, and a text without its surrounding white space.
C30_IdValue(f) ==
    CASE f \in {F_7, F_7_sp} -> 7
      [] f = F_42 -> 42

C30_Trimmed(f) ==
    CASE f \in {F_drug, F_drug_sp} -> F_drug
      [] f = F_Aspirin -> F_Aspirin
      [] f = F_Insulin_sp -> F_Insulin
      [] f \in {F_obj, F_obj_sp} -> F_obj
      [] f = F_obj_v1 -> F_obj_v1

\* C30: for a valid row the Segmentation handed to the Store has UserID the
\* number field 0 holds once trimmed, SegmentationType, SegmentationName and
\* Data fields 1, 2 and 3 trimmed; a fifth field changes nothing; the record
\* the worker holds at the call is the record that was sent.
C30_SegmentationFromRow ==
    /\ vpc \in {"pulled", "called"} => vr = vrec
    /\ vpc = "called" =>
          /\ vseg = [UserID           |-> C30_IdValue(vrow[1]),
                     SegmentationType |-> C30_Trimmed(vrow[2]),
                     SegmentationName |-> C30_Trimmed(vrow[3]),
                     Data             |-> C30_Trimmed(vrow[4])]
          /\ vseg = [UserID |-> vrec.userID, SegmentationType |-> vrec.segType,
                     SegmentationName |-> vrec.name, Data |-> vrec.data]

\* The Store was called for a row of five fields with white space around
\* its id, type, name and payload.
C30_Witness ==
    /\ vpc = "called"
    /\ vrow = <<F_7_sp, F_drug_sp, F_Insulin_sp, F_obj_sp, F_extra>>
    /\ vseg = [UserID |-> 7, SegmentationType |-> F_drug,
               SegmentationName |-> F_Insulin, Data |-> F_obj]

(***************************************************************************)
(* SpecStore: segmentationRepository.Upsert (repository/mysql              *)
(* segmentation.go 36-83) called by MaxCalls concurrent callers on one     *)
(* table.  Each statement sent to the database (First, Create, Updates) is *)
(* one step; nothing holds the three together: there is no transaction and *)
(* no lock.  The table has the unique index uniq_user_seg of               *)
(* models.Segmentation over (user_id, segmentation_type, segmentation_name)*)
(* A statement may also fail on its own (connection, context, storage); a  *)
(* failed statement changes no row.                                        *)
(***************************************************************************)
Triples ==
    { [userID |-> 7, segType |-> F_drug, name |-> F_Aspirin],
      [userID |-> 7, segType |-> F_drug, name |-> F_Insulin] }

Payloads == {F_obj, F_obj_v1}

\* The last second of the clock.
MaxTime == 2

\* What time.Now().Unix() can give when it last gave n: the clock does not
\* go back.
ClockReadings(n) == {t \in {n, n + 1} : t <= MaxTime}

\* line 50, Create(s) of a Segmentation whose CreatedAt and UpdatedAt are
\* zero: GORM fills both with the current time
CreatedEntry(id, key, data, t) ==
    [id |-> id, key |-> key, data |-> data, createdAt |-> t, updatedAt |-> t]

\* UpdatedEntry by a Save of the whole Segmentation, created_at included.
UpdatedEntry_SavesAll(e, data, t) ==
    [e EXCEPT !.data = data, !.updatedAt = t, !.createdAt = 0]

\* lines 69-72: Updates of the columns data and updated_at of the row whose
\* id is existing.ID
UpdatedEntry(e, data, t) == [e EXCEPT !.data = data, !.updatedAt = t]

\* UniqueViolation without the index uniq_user_seg.
UniqueViolation_NoIndex(tbl, key) == FALSE

\* models.Segmentation, uniqueIndex:uniq_user_seg: an INSERT of a triple the
\* table already holds is refused (MySQL error 1062)
UniqueViolation(tbl, key) == \E e \in tbl : e.key = key

\* FindFirst that never matches a row.
FindFirst_NoMatch(tbl, key) == {}

\* lines 43-46: the rows Where(user_id, segmentation_type,
\* segmentation_name).First can return
FindFirst(tbl, key) == {e \in tbl : e.key = key}

\* The callers whose Upsert has returned.
Returned == {c \in CallIds : calls[c].pc = "returned"}

\* UpdateResult that answers UpsertNoOp when the row already has the payload.
UpdateResult_NoOpWhenSame(old, data) ==
    IF old = data THEN UpsertNoOp ELSE UpsertUpdated

\* line 82: what the update path returns, whatever the row held
UpdateResult(old, data) == UpsertUpdated

\* lines 48-65 with an error that is not ErrRecordNotFound (61-65), line 54
\* and line 77: return UpsertNoOp with the error
ReturnError(c, key, data, e, injected) ==
    [calls EXCEPT ![c] =
        [pc |-> "returned", key |-> key, data |-> data,
         existing |-> @.existing, result |-> UpsertNoOp, err |-> e,
         fault |-> injected, after |-> @.after]]

\* lines 41-48 and 61-68: the lookup of the triple and the branch on it
UpsertLookupOf(c, key, data) ==
    /\ calls[c].pc = "idle"
    /\ \/ calls' = [calls EXCEPT ![c] =
                          [pc |-> "returned", key |-> key, data |-> data,
                           existing |-> 0, result |-> UpsertNoOp,
                           err |-> "failure", fault |-> TRUE,
                           after |-> Returned]]
          \/ /\ FindFirst(table, key) = {}
             /\ calls' = [calls EXCEPT ![c] =
                             [pc |-> "create", key |-> key, data |-> data,
                              existing |-> 0, result |-> "none",
                              err |-> "nil", fault |-> FALSE,
                              after |-> Returned]]
          \/ \E e \in FindFirst(table, key) :
                calls' = [calls EXCEPT ![c] =
                             [pc |-> "update", key |-> key, data |-> data,
                              existing |-> e.id, result |-> "none",
                              err |-> "nil", fault |-> FALSE,
                              after |-> Returned]]
    /\ UNCHANGED <<table, now, validatorVars, serviceVars, ctxDone, preCancelled, store, pc,
                   setup, ret, workers, ch, chClosed, doneCh, wg, rowNum, row,
                   rec, counters, wpc, wr, rpc, upserts, pulls, returned,
                   summary, finished,
                   reporterVars, handlerVars,
                   cancelVars>>

\* Upsert called by any caller with any triple and payload.
UpsertLookup(c) ==
    \E key \in Triples, data \in Payloads : UpsertLookupOf(c, key, data)

\* lines 50-58: Create(s), then UpsertInserted or the error
UpsertCreate(c) ==
    /\ calls[c].pc = "create"
    /\ LET key == calls[c].key
           data == calls[c].data
       IN  \/ /\ calls' = ReturnError(c, key, data, "failure", TRUE)
              /\ UNCHANGED <<table, now>>
           \/ /\ UniqueViolation(table, key)
              /\ calls' = ReturnError(c, key, data, "duplicate_entry", FALSE)
              /\ UNCHANGED <<table, now>>
           \/ /\ ~UniqueViolation(table, key)
              /\ \E t \in ClockReadings(now) :
                    /\ now' = t
                    /\ table' = table \cup
                          {CreatedEntry(Cardinality(table) + 1, key, data, t)}
                    /\ calls' = [calls EXCEPT ![c].pc = "returned",
                                              ![c].result = UpsertInserted]
    /\ UNCHANGED <<validatorVars, serviceVars, ctxDone, preCancelled, store, pc,
                   setup, ret, workers, ch, chClosed, doneCh, wg, rowNum, row,
                   rec, counters, wpc, wr, rpc, upserts, pulls, returned,
                   summary, finished,
                   reporterVars, handlerVars,
                   cancelVars>>

\* lines 68-82: s.ID = existing.ID, Model(s).Updates(data, updated_at), then
\* UpsertUpdated or the error
UpsertUpdate(c) ==
    /\ calls[c].pc = "update"
    /\ \/ /\ calls' = ReturnError(c, calls[c].key, calls[c].data, "failure", TRUE)
          /\ UNCHANGED <<table, now>>
       \/ \E t \in ClockReadings(now) :
             /\ now' = t
             /\ table' = {IF e.id = calls[c].existing
                          THEN UpdatedEntry(e, calls[c].data, t)
                          ELSE e : e \in table}
             /\ calls' = [calls EXCEPT
                            ![c].pc = "returned",
                            ![c].result =
                                UpdateResult(
                                    (CHOOSE e \in table :
                                        e.id = calls[c].existing).data,
                                    calls[c].data)]
    /\ UNCHANGED <<validatorVars, serviceVars, ctxDone, preCancelled, store, pc,
                   setup, ret, workers, ch, chClosed, doneCh, wg, rowNum, row,
                   rec, counters, wpc, wr, rpc, upserts, pulls, returned,
                   summary, finished,
                   reporterVars, handlerVars,
                   cancelVars>>

StoreInit ==
    /\ RunInit /\ ~ctxDone /\ store = "any" /\ workers = 1
    /\ ValidatorIdle
    /\ StoreIdle
    /\ ServiceIdle
    /\ ReporterIdle
    /\ HandlerIdle
    /\ CancelIdle

\* Upsert writes created_at and updated_at and never reads them, so the
\* callers of SpecStore all run within one second of the clock;
\* SpecStoreClock below lets the clock advance.
StoreNext ==
    \/ \E c \in CallIds : UpsertLookup(c)
    \/ \E c \in CallIds : UpsertCreate(c) /\ now' = now
    \/ \E c \in CallIds : UpsertUpdate(c) /\ now' = now

SpecStore == StoreInit /\ [][StoreNext]_vars

\* The callers that have called Upsert for the triple.
CallsOn(key) == {c \in CallIds : calls[c].pc # "idle" /\ calls[c].key = key}

\* C14: when a triple the store did not hold is upserted twice in sequence
\* (the second call starts after the first has returned, nobody else
\* upserts the triple) with different payloads and no statement fails, the
\* first call returns Inserted and the second Updated, both with a nil
\* error; Inserted is never returned twice.
C14_InsertedThenUpdated ==
    \A key \in Triples : \A a, b \in CallIds :
        ( /\ a # b
          /\ CallsOn(key) = {a, b}
          /\ {a, b} \subseteq Returned
          /\ a \in calls[b].after
          /\ calls[a].data # calls[b].data
          /\ ~calls[a].fault /\ ~calls[b].fault )
        => /\ calls[a].result = UpsertInserted /\ calls[a].err = "nil"
           /\ calls[b].result = UpsertUpdated /\ calls[b].err = "nil"
           /\ \E e \in table : e.key = key /\ e.data = calls[b].data

\* Two callers have upserted one triple in sequence with different payloads,
\* after a third one had stored the other triple.
C14_Witness ==
    \E key \in Triples : \E a, b, c \in CallIds :
        /\ a # b
        /\ CallsOn(key) = {a, b}
        /\ {a, b, c} \subseteq Returned
        /\ calls[c].key # key /\ calls[c].result = UpsertInserted
        /\ c \in calls[a].after
        /\ a \in calls[b].after
        /\ calls[a].data # calls[b].data
        /\ calls[a].result = UpsertInserted
        /\ calls[b].result = UpsertUpdated

\* C15: whatever the interleaving of two or more Upsert calls on one triple
\* the store did not hold, if no statement fails on its own then, once the
\* calls have returned, exactly one returned Inserted, the others returned
\* Updated and none returned an error.
C15_ConcurrentUpsertsSafe ==
    \A key \in Triples :
        ( /\ Cardinality(CallsOn(key)) >= 2
          /\ CallsOn(key) \subseteq Returned
          /\ \A c \in CallsOn(key) : ~calls[c].fault )
        => /\ Cardinality({c \in CallsOn(key) :
                               calls[c].result = UpsertInserted}) = 1
           /\ \A c \in CallsOn(key) :
                 /\ calls[c].err = "nil"
                 /\ calls[c].result \in {UpsertInserted, UpsertUpdated}

\* C16: the table never holds two rows of one triple and, whenever no call
\* is under way, it holds as many rows as calls have returned Inserted.
C16_OneEntryPerTriple ==
    /\ \A e1, e2 \in table : e1.key = e2.key => e1 = e2
    /\ (\A c \in CallIds : calls[c].pc \in {"idle", "returned"}) =>
          Cardinality(table) =
              Cardinality({c \in Returned : calls[c].result = UpsertInserted})

\* Every caller has returned; two of them raced on one triple, one inserted
\* it and the other was refused by the unique index; the third stored the
\* other triple.
C16_Witness ==
    /\ Returned = CallIds
    /\ Cardinality(table) = 2
    /\ \E c \in CallIds : calls[c].err = "duplicate_entry"
    /\ Cardinality({c \in Returned : calls[c].result = UpsertInserted}) = 2

\* Callers of Upsert while the clock runs.
MaxClockCalls == 2

ClockCallIds == {c \in CallIds : c <= MaxClockCalls}

StoreClockNext ==
    \/ \E c \in ClockCallIds : UpsertLookup(c)
    \/ \E c \in ClockCallIds : UpsertCreate(c)
    \/ \E c \in ClockCallIds : UpsertUpdate(c)

SpecStoreClock == StoreInit /\ [][StoreClockNext]_vars

\* The calls of S came one after the other: each began after the others
\* before it had returned.
C38_Sequential(S) ==
    \A a, b \in S : a # b => a \in calls[b].after \/ b \in calls[a].after

\* A step keeps every row, with its id, key and created_at; it changes a row
\* only by an update that a call on the row's triple makes, to that call's
\* payload.
C38_FrameStep ==
    \A e \in table : \E e2 \in table' :
        /\ e2.id = e.id /\ e2.key = e.key /\ e2.createdAt = e.createdAt
        /\ e2 # e =>
              \E c \in CallIds :
                  /\ calls[c].pc = "update" /\ calls'[c].pc = "returned"
                  /\ calls[c].key = e.key
                  /\ e2.data = calls[c].data
                  /\ e2.updatedAt = now'
                  /\ e2.updatedAt >= e.updatedAt

\* C38: the update path changes only the payload and updated_at of the
\* existing entry: no step changes the key or the created_at of an entry,
\* and an update changes no entry of another triple.  After successful
\* Upserts of one triple made one after the other, the first of which
\* inserted it, the table holds one entry of the triple, with the payload of
\* the last call.
C38_UpdateKeepsKeyAndCreatedAt ==
    /\ [](\A key \in Triples :
            LET S == CallsOn(key) IN
            ( /\ S # {} /\ S \subseteq Returned
              /\ C38_Sequential(S)
              /\ \A c \in S : calls[c].err = "nil" )
            => \E e \in table :
                  /\ e.key = key
                  /\ \A e2 \in table : e2.key = key => e2 = e
                  /\ e.createdAt <= e.updatedAt
                  /\ \A c \in S :
                        /\ calls[c].after \cap S = {} =>
                              calls[c].result = UpsertInserted
                        /\ S \ {c} \subseteq calls[c].after =>
                              e.data = calls[c].data)
    /\ [][C38_FrameStep]_vars

\* Two callers upserted one triple one after the other; the entry has the
\* payload of the second, which differs from the first's, and an updated_at
\* later than its created_at.
C38_Witness ==
    \E key \in Triples : \E a, b \in CallIds :
        /\ CallsOn(key) = {a, b} /\ {a, b} \subseteq Returned
        /\ a \in calls[b].after
        /\ calls[a].result = UpsertInserted
        /\ calls[b].result = UpsertUpdated
        /\ calls[a].data # calls[b].data
        /\ \E e \in table :
              /\ e.key = key /\ e.data = calls[b].data
              /\ e.createdAt < e.updatedAt

(***************************************************************************)
(* SpecService: SegmentationService.GetByUserID and normalizeType          *)
(* (service, src/unnamed/part_002 29-73) over a repository holding the     *)
(* records of several users.                                               *)
(***************************************************************************)
\* Records the repository holds.
MaxRecords == 2

UpperCase == <<"A", "B", "C", "D", "E", "F", "G", "H", "I", "J", "K", "L", "M",
               "N", "O", "P", "Q", "R", "S", "T", "U", "V", "W", "X", "Y", "Z">>
LowerCase == <<"a", "b", "c", "d", "e", "f", "g", "h", "i", "j", "k", "l", "m",
               "n", "o", "p", "q", "r", "s", "t", "u", "v", "w", "x", "y", "z">>

ToLowerChar(c) ==
    IF \E i \in 1..Len(UpperCase) : UpperCase[i] = c
    THEN LowerCase[CHOOSE i \in 1..Len(UpperCase) : UpperCase[i] = c]
    ELSE c

\* strings.ToLower
RECURSIVE ToLower(_)
ToLower(s) ==
    IF s = <<>> THEN <<>> ELSE <<ToLowerChar(Head(s))>> \o ToLower(Tail(s))

F_DrUg        == <<"D", "r", "U", "g">>
F_specialty   == <<"s", "p", "e", "c", "i", "a", "l", "t", "y">>
F_SPECIALTY   == <<"S", "P", "E", "C", "I", "A", "L", "T", "Y">>
F_patient     == <<"p", "a", "t", "i", "e", "n", "t">>
F_custom      == <<"c", "u", "s", "t", "o", "m">>
F_Custom      == <<"C", "u", "s", "t", "o", "m">>
F_drugs       == <<"d", "r", "u", "g", "s">>
F_specialties == <<"s", "p", "e", "c", "i", "a", "l", "t", "i", "e", "s">>
F_patients    == <<"p", "a", "t", "i", "e", "n", "t", "s">>

\* normalizeType switching on t itself, not on strings.ToLower(t).
normalizeType_NoLower(t) ==
    IF t = F_specialty THEN F_specialties
    ELSE IF t = F_drug THEN F_drugs
    ELSE IF t = F_patient THEN F_patients
    ELSE t \o <<"s">>

\* part_002 62-73
normalizeType(t) ==
    LET l == ToLower(t) IN
    IF l = F_specialty THEN F_specialties
    ELSE IF l = F_drug THEN F_drugs
    ELSE IF l = F_patient THEN F_patients
    ELSE t \o <<"s">>

\* What the repository can hold.
TypeTexts == {F_drug, F_DrUg, F_SPECIALTY, F_patient, F_custom, F_Custom, F_empty}
UserIds == {7, 8}
StoredRecords ==
    [userID : UserIds, segType : TypeTexts, name : {F_Aspirin, F_Insulin},
     data : {F_obj}]

RECURSIVE SeqsUpTo(_, _)
SeqsUpTo(S, n) ==
    IF n = 0 THEN {<<>>}
    ELSE LET shorter == SeqsUpTo(S, n - 1) IN
         shorter \cup {Append(q, x) : q \in shorter, x \in S}

\* FindByUserID without Where("user_id = ?", userID).
FindByUserID_AllUsers(records, userID) == records

\* repository FindByUserID (mysql/segmentation.go 21-34): the records of the
\* user, in the order the repository gives them.  db stands for the table
\* in that order, whichever it is.
FindByUserID(records, userID) ==
    SelectSeq(records, LAMBDA r : r.userID = userID)

\* part_002 45-46: json.Unmarshal into a map; the error is dropped and the
\* map is nil then
Unmarshal(d) == IF TrimSpace(d) = F_obj THEN "map[]" ELSE "nil"

\* part_002 44-57: the loop over the records
RECURSIVE GroupRecords(_, _)
GroupRecords(records, segs) ==
    IF records = <<>> THEN segs
    ELSE LET r    == Head(records)
             key  == normalizeType(r.segType)
             item == [Name |-> r.name, Data |-> Unmarshal(r.data)]
             cur  == IF key \in DOMAIN segs THEN segs[key] ELSE <<>>
         IN  GroupRecords(Tail(records), (key :> Append(cur, item)) @@ segs)

ServiceInit ==
    /\ RunInit /\ ~ctxDone /\ store = "any" /\ workers = 1
    /\ ValidatorIdle
    /\ StoreIdle
    /\ ReporterIdle
    /\ HandlerIdle
    /\ CancelIdle
    /\ db \in SeqsUpTo(StoredRecords, MaxRecords)
    /\ spc = "idle"
    /\ req = 0
    /\ resp = NoResp
    /\ serr = "nil"

\* part_002 29-60: what GetByUserID can return for a user: nil and the
\* repository's error, or the grouped records and nil
ServiceReturns(records, userID) ==
    {[resp |-> NoResp, err |-> "repository error"],
     [resp |-> [UserID |-> userID,
                Segmentations |->
                    GroupRecords(FindByUserID(records, userID), <<>>)],
      err |-> "nil"]}

\* part_002 29-60
GetByUserID ==
    /\ spc = "idle"
    /\ \E userID \in UserIds :
          /\ req' = userID
          /\ \E out \in ServiceReturns(db, userID) :
                /\ resp' = out.resp
                /\ serr' = out.err
    /\ spc' = "returned"
    /\ UNCHANGED <<db, validatorVars, storeVars, ctxDone, preCancelled, store,
                   pc, setup, ret, workers, ch, chClosed, doneCh, wg, rowNum,
                   row, rec, counters, wpc, wr, rpc, upserts, pulls, returned,
                   summary, finished,
                   reporterVars, handlerVars,
                   cancelVars>>

ServiceNext == GetByUserID

SpecService == ServiceInit /\ [][ServiceNext]_vars

\* The positions in db of the records of the user asked for.
OwnRecords == {i \in 1..Len(db) : db[i].userID = req}

\* The group of the response holding an item of that name.
GroupsHolding(name) ==
    {k \in DOMAIN resp.Segmentations :
        \E j \in 1..Len(resp.Segmentations[k]) :
            resp.Segmentations[k][j].Name = name}

\* C18: in the response of GetByUserID two records of the user whose types
\* differ only in letter case are in the same group, whatever the type.
C18_CaseInsensitiveGroups ==
    (spc = "returned" /\ serr = "nil") =>
        \A i, j \in OwnRecords :
            ToLower(db[i].segType) = ToLower(db[j].segType) =>
                \E k \in DOMAIN resp.Segmentations :
                    k \in GroupsHolding(db[i].name) \cap GroupsHolding(db[j].name)

\* The group key of each type text: the plural forms for specialty, drug and
\* patient in any letter case, the text followed by "s" for the others.
C19_Expected(t) ==
    CASE t \in {F_drug, F_DrUg} -> F_drugs
      [] t = F_SPECIALTY -> F_specialties
      [] t = F_patient -> F_patients
      [] t = F_custom -> <<"c", "u", "s", "t", "o", "m", "s">>
      [] t = F_Custom -> <<"C", "u", "s", "t", "o", "m", "s">>
      [] t = F_empty -> <<"s">>

C20_EveryRecordOnce ==
    (spc = "returned" /\ serr = "nil") =>
        LET segs  == resp.Segmentations
            keys  == {normalizeType(db[i].segType) : i \in OwnRecords}
            items(k) ==
                LET own == SelectSeq(db, LAMBDA r :
                               r.userID = req /\ normalizeType(r.segType) = k)
                IN  [n \in 1..Len(own) |->
                        [Name |-> own[n].name, Data |-> "map[]"]]
        IN  /\ resp.UserID = req
            /\ DOMAIN segs = keys
            /\ \A k \in keys : segs[k] = items(k)
            /\ Cardinality({<<k, n>> \in keys \X (1..MaxRecords) :
                               n <= Len(segs[k])}) = Cardinality(OwnRecords)

\* A response for a user with two records that fall in one group, held by
\* the repository in an order that is not the alphabetical one.
C20_Witness ==
    /\ spc = "returned" /\ serr = "nil"
    /\ Len(db) = 2
    /\ db[1].userID = req /\ db[2].userID = req
    /\ db[1].segType = F_drug /\ db[2].segType = F_DrUg
    /\ db[1].name = F_Insulin /\ db[2].name = F_Aspirin
    /\ Len(resp.Segmentations[F_drugs]) = 2


(***************************************************************************)
(* The progress reporter's ticks (worker.go 66-99): Run with the ticker.   *)
(* A tick loads the seven counters one atomic load at a time, and logs a   *)
(* progress line from what it loaded unless the read count it loaded is 0. *)
(***************************************************************************)
\* Rows read in a run with ticks.
MaxTickRows == 1

\* lines 73-79: the counters in the order the tick loads them
ReporterLoads ==
    <<totalRead, totalEnqueued, totalProcessed, totalUpdated,
      totalDuplicates, totalFailed, totalInvalid>>

LogsProgress_Always(read) == TRUE

\* lines 81-83: if read == 0 { continue }
LogsProgress(read) == read # 0

\* lines 88-91: the values of the progress line
ProgressLine(s) ==
    [read |-> s[1], enqueued |-> s[2], inserted |-> s[3], updated |-> s[4],
     duplicates |-> s[5], failed |-> s[6], invalid |-> s[7]]

\* line 72: case <-ticker.C, whatever else is ready
ReporterTick ==
    /\ rpc = "select"
    /\ rpc' = "tick"
    /\ snap' = <<>>
    /\ UNCHANGED <<ctxDone, preCancelled, store, pc, setup, ret, workers, ch,
                   chClosed, doneCh, wg, rowNum, row, rec, counters, wpc, wr,
                   upserts, pulls, returned, summary, finished, progress,
                   lateProgress, validatorVars, storeVars, serviceVars,
                   handlerVars,
                   cancelVars>>

\* lines 73-79: the next atomic load
ReporterLoad ==
    /\ rpc = "tick"
    /\ Len(snap) < Len(ReporterLoads)
    /\ snap' = Append(snap, ReporterLoads[Len(snap) + 1])
    /\ UNCHANGED <<ctxDone, preCancelled, store, pc, setup, ret, workers, ch,
                   chClosed, doneCh, wg, rowNum, row, rec, counters, wpc, wr,
                   rpc, upserts, pulls, returned, summary, finished, progress,
                   lateProgress, validatorVars, storeVars, serviceVars,
                   handlerVars,
                   cancelVars>>

\* lines 81-91: skip the line when read is 0, log it otherwise; back to select
ReporterLog ==
    /\ rpc = "tick"
    /\ Len(snap) = Len(ReporterLoads)
    /\ IF LogsProgress(snap[1])
       THEN /\ progress' = <<ProgressLine(snap)>>
            /\ lateProgress' = (lateProgress \/ summary > 0)
       ELSE UNCHANGED <<progress, lateProgress>>
    /\ snap' = <<>>
    /\ rpc' = "select"
    /\ UNCHANGED <<ctxDone, preCancelled, store, pc, setup, ret, workers, ch,
                   chClosed, doneCh, wg, rowNum, row, rec, counters, wpc, wr,
                   upserts, pulls, returned, summary, finished,
                   validatorVars, storeVars, serviceVars, handlerVars,
                   cancelVars>>

\* The producer's read, in a file of at most MaxTickRows rows.
TickRead ==
    /\ ProducerRead
    /\ pc' = "close" \/ rowNum < MaxTickRows + 1

ReporterNext ==
    \/ Cancel
    \/ OpenFile
    \/ ReadHeader
    \/ Spawn
    \/ ProducerCheck
    \/ TickRead
    \/ ProducerValidate
    \/ ProducerSend
    \/ CloseCh
    \/ WaitWorkers
    \/ CloseDone
    \/ Finish
    \/ \E w \in WorkerIds : WorkerRecv(w)
    \/ \E w \in WorkerIds : WorkerCheck(w)
    \/ \E w \in WorkerIds : WorkerUpsert(w)
    \/ ReporterTick
    \/ ReporterLoad
    \/ ReporterLog
    \/ ReporterDone
    \/ ReporterCancelled

SpecReporter == Init /\ [][ReporterNext]_vars


\* C27: the reporter is stopped before the summary line is logged: no
\* progress line is logged after processor_finished, and the reporter has
\* exited by the time Run returns.
C27_ReporterStoppedFirst ==
    /\ ~lateProgress
    /\ (pc = "done" /\ summary > 0) => rpc = "exited"

\* A step of the reporter goroutine after it is started.
C28_ReporterStep ==
    \/ snap' # snap
    \/ rpc' # rpc /\ rpc # "unborn"

\* C28: a step of the reporter changes no counter and leaves the queue as it
\* is, and every progress line logged reports a read count of at least 1: a
\* tick that loaded read = 0 logs nothing.
C28_TickReadsOnly ==
    /\ [](progress # <<>> => progress[1].read >= 1)
    /\ [][C28_ReporterStep =>
             /\ counters' = counters
             /\ ch' = ch
             /\ chClosed' = chClosed]_vars

\* A progress line was logged after the row was read, and the producer has
\* counted the row as enqueued since.
C28_Witness ==
    /\ progress # <<>>
    /\ progress[1].read >= 1
    /\ progress[1].enqueued < totalEnqueued
    /\ rpc = "select"


\* C37, as stated: the values of every progress line satisfy enqueued +
\* invalid <= read and inserted + updated + duplicates + failed <= enqueued.
C37_ConsistentSnapshot ==
    progress # <<>> =>
        /\ progress[1].enqueued + progress[1].invalid <= progress[1].read
        /\ progress[1].inserted + progress[1].updated
              + progress[1].duplicates + progress[1].failed
                 <= progress[1].enqueued

(***************************************************************************)
(* GET /users/:user_id/segmentations (handler/segmentation.go 24-51): one  *)
(* request against a repository holding up to MaxRecords records.          *)
(***************************************************************************)
F_8   == <<"8">>
\* 1<<64, one above the largest uint64.
F_big ==
    <<"1", "8", "4", "4", "6", "7", "4", "4", "0", "7",
      "3", "7", "0", "9", "5", "5", "1", "6", "1", "6">>

\* Texts of the :user_id path parameter; the router gives a non-empty one.
HandlerParams == {F_7, F_8, F_42, F_7_sp, F_abc, F_neg, F_big}

StatusOK                  == 200
StatusBadRequest          == 400
StatusNotFound            == 404
StatusInternalServerError == 500

\* HandlerStatus answering 404 for a user without segmentations.
HandlerStatus_EmptyNotFound(result, err) ==
    IF err # "nil" THEN StatusInternalServerError
    ELSE IF result = NoResp \/ DOMAIN result.Segmentations = {}
    THEN StatusNotFound
    ELSE StatusOK

\* lines 36-50: the status for what the service returned
HandlerStatus(result, err) ==
    IF err # "nil" THEN StatusInternalServerError
    ELSE IF result = NoResp THEN StatusNotFound
    ELSE StatusOK

\* lines 37-50: the body for what the service returned
HandlerBody(result, err) ==
    IF err # "nil" THEN [error |-> err, result |-> NoResp]
    ELSE IF result = NoResp THEN [error |-> "user not found", result |-> NoResp]
    ELSE [error |-> "", result |-> result]

HandlerInit ==
    /\ RunInit /\ ~ctxDone /\ store = "any" /\ workers = 1
    /\ ValidatorIdle
    /\ StoreIdle
    /\ ReporterIdle
    /\ HandlerIdle
    /\ CancelIdle
    /\ db \in SeqsUpTo(StoredRecords, MaxRecords)
    /\ spc = "idle"
    /\ req = 0
    /\ resp = NoResp
    /\ serr = "nil"

\* lines 24-51, the call of the service included
GetUserSegmentations ==
    /\ hpc = "idle"
    /\ \E userIDStr \in HandlerParams :
          LET userID == ParseUint(userIDStr)
          IN  /\ hparam' = userIDStr
              /\ IF ~userID.ok
                 THEN /\ hstatus' = StatusBadRequest
                      /\ hbody' = [error |-> "invalid user_id format",
                                   result |-> NoResp]
                      /\ UNCHANGED <<spc, req, resp, serr>>
                 ELSE \E out \in ServiceReturns(db, userID.val) :
                         /\ spc' = "returned"
                         /\ req' = userID.val
                         /\ resp' = out.resp
                         /\ serr' = out.err
                         /\ hstatus' = HandlerStatus(out.resp, out.err)
                         /\ hbody' = HandlerBody(out.resp, out.err)
    /\ hpc' = "returned"
    /\ UNCHANGED <<db, validatorVars, storeVars, reporterVars, ctxDone,
                   preCancelled, store, pc, setup, ret, workers, ch, chClosed,
                   doneCh, wg, rowNum, row, rec, counters, wpc, wr, rpc,
                   upserts, pulls, returned, summary, finished,
                   cancelVars>>

HandlerNext == GetUserSegmentations

SpecHandler == HandlerInit /\ [][HandlerNext]_vars

\* The parameter texts that are a decimal uint64.
C21_Uint64Texts == {F_7, F_8, F_42}

\* C21: a request whose user_id is not a decimal uint64 is answered 400 and
\* the service is not called; otherwise the service is called and the answer
\* is 500 when it returned an error and 200 with its result when it did
\* not; a user with nothing stored gets 200 with no segmentations, and no
\* request is answered 404.
C21_HandlerStatuses ==
    hpc = "returned" =>
        /\ hparam \notin C21_Uint64Texts =>
              hstatus = StatusBadRequest /\ spc = "idle"
        /\ hparam \in C21_Uint64Texts =>
              /\ spc = "returned"
              /\ serr # "nil" => hstatus = StatusInternalServerError
              /\ serr = "nil" =>
                    /\ hstatus = StatusOK
                    /\ hbody.result = resp
                    /\ (\A i \in 1..Len(db) : db[i].userID # req) =>
                          DOMAIN hbody.result.Segmentations = {}
        /\ hstatus # StatusNotFound

\* A user with nothing stored, in a repository that holds records of others,
\* was answered 200 with no segmentations.
C21_Witness ==
    /\ hpc = "returned"
    /\ hparam = F_42
    /\ db # <<>>
    /\ serr = "nil"
    /\ hstatus = StatusOK
    /\ DOMAIN hbody.result.Segmentations = {}


(***************************************************************************)
(* SpecCancel: Run over a file of at most MaxCancelRows rows, with what    *)
(* the producer and the workers do after the cancellation signal counted   *)
(* in sinceCancel.                                                         *)
(***************************************************************************)
\* Rows read in a run whose events since the signal are kept.
MaxCancelRows == 2

CancelInit ==
    /\ RunInit
    /\ ValidatorIdle
    /\ StoreIdle
    /\ ServiceIdle
    /\ ReporterIdle
    /\ HandlerIdle
    /\ sinceCancel = NoneSince(TRUE)

\* The producer's read, in a file of at most MaxCancelRows rows.
CancelRead ==
    /\ ProducerRead
    /\ pc' = "close" \/ rowNum < MaxCancelRows + 1

CancelNext ==
    \/ Cancel
    \/ OpenFile
    \/ ReadHeader
    \/ Spawn
    \/ ProducerCheck
    \/ CancelRead
    \/ ProducerValidate
    \/ ProducerSend
    \/ CloseCh
    \/ WaitWorkers
    \/ CloseDone
    \/ Finish
    \/ \E w \in WorkerIds : WorkerRecv(w)
    \/ \E w \in WorkerIds : WorkerCheck(w)
    \/ \E w \in WorkerIds : WorkerUpsert(w)
    \/ ReporterDone
    \/ ReporterCancelled

SpecCancel == CancelInit /\ [][CancelNext]_vars

\* The Go scheduler runs every goroutine that can run, a Read of the file
\* and a Store call return: a step of the producer or of a worker that stays
\* possible is taken.
FairSpecCancel ==
    /\ SpecCancel
    /\ WF_vars(ProducerCheck)
    /\ WF_vars(CancelRead)
    /\ WF_vars(ProducerValidate)
    /\ WF_vars(ProducerSend)
    /\ WF_vars(CloseCh)
    /\ \A w \in WorkerIds :
          /\ WF_vars(WorkerRecv(w))
          /\ WF_vars(WorkerCheck(w))
          /\ WF_vars(WorkerUpsert(w))


\* C32: after the cancellation signal the producer reads at most one more
\* row and counts and sends at most one more Record: read and enqueued each
\* grow by at most 1 from their values at the signal.
C32_ProducerStopsWithinOneRow ==
    /\ sinceCancel.read <= 1
    /\ sinceCancel.enqueued <= 1
    /\ sinceCancel.sent <= 1

\* The signal came while the producer was past its check; it read, counted
\* and sent one more row, and the run has returned.
C32_Witness ==
    /\ pc = "done" /\ setup = "ok" /\ ~preCancelled
    /\ sinceCancel.read = 1
    /\ sinceCancel.enqueued = 1
    /\ sinceCancel.sent = 1
    /\ totalRead >= 2

\* C33: after the cancellation signal each worker begins at most one more
\* Store call, so at most N calls begin after it, and receives at most two
\* more Records before it exits.
RECURSIVE C33_CallsSince(_)
C33_CallsSince(n) ==
    IF n = 0 THEN 0 ELSE sinceCancel.calls[n] + C33_CallsSince(n - 1)

MaxStoreRows == 3

\* lines 116-121 and mysql/segmentation.go 44-45: the triple of a record
KeyOf(r) == [userID |-> r.userID, segType |-> r.segType, name |-> r.name]

MySQLRunInit ==
    /\ RunInit /\ store = "any"
    /\ ValidatorIdle
    /\ StoreIdle
    /\ ServiceIdle
    /\ ReporterIdle
    /\ HandlerIdle
    /\ CancelIdle

\* The producer's read, in a file of at most MaxStoreRows rows.
StoreRead ==
    /\ ProducerRead
    /\ pc' = "close" \/ rowNum < MaxStoreRows + 1

\* worker.go 116-122: the worker calls Upsert with the record in hand
WorkerLookup(w) ==
    /\ wpc[w] = "call"
    /\ UpsertLookupOf(w, KeyOf(wr[w]), wr[w].data)

\* worker.go 123-167: Upsert has returned to the worker, which counts the
\* outcome and goes back to the range
WorkerCount(w) ==
    /\ wpc[w] = "call"
    /\ calls[w].pc = "returned"
    /\ CountOutcome(w, [result |-> calls[w].result,
                        err |-> calls[w].err # "nil"])
    /\ calls' = [calls EXCEPT ![w] = IdleCall]
    /\ UNCHANGED <<ctxDone, preCancelled, store, pc, setup, ret, workers, ch,
                   chClosed, doneCh, rowNum, row, rec, totalRead,
                   totalEnqueued, totalInvalid, rpc, pulls, summary, finished,
                   table, now, validatorVars, serviceVars, reporterVars,
                   handlerVars>>

MySQLRunNext ==
    \/ Cancel
    \/ OpenFile
    \/ ReadHeader
    \/ Spawn
    \/ ProducerCheck
    \/ StoreRead
    \/ ProducerValidate
    \/ ProducerSend
    \/ CloseCh
    \/ WaitWorkers
    \/ CloseDone
    \/ Finish
    \/ \E w \in WorkerIds : WorkerRecv(w)
    \/ \E w \in WorkerIds : WorkerCheck(w)
    \/ \E w \in WorkerIds : WorkerLookup(w)
    \/ \E w \in WorkerIds : UpsertCreate(w)
    \/ \E w \in WorkerIds : UpsertUpdate(w)
    \/ \E w \in WorkerIds : WorkerCount(w)
    \/ ReporterDone
    \/ ReporterCancelled

SpecMySQLRun == MySQLRunInit /\ [][MySQLRunNext]_vars

\* C39: an Upsert of the MySQL repository that has returned gave UpsertNoOp
\* exactly when it gave an error; in a run with this Store the duplicates
\* counter stays 0 and no worker takes the upsert_noop branch.
C39_NoOpOnlyWithError ==
    /\ \A c \in CallIds :
          calls[c].pc = "returned" =>
              (calls[c].result = UpsertNoOp <=> calls[c].err # "nil")
    /\ totalDuplicates = 0
    /\ returned[UpsertNoOp] = 0

\* A run has inserted a record, updated it and counted a failed Upsert, and
\* an Upsert has just returned UpsertNoOp with an error to its worker.
C39_Witness ==
    /\ totalProcessed >= 1 /\ totalUpdated >= 1
    /\ \E w \in 1..workers :
          /\ wpc[w] = "call"
          /\ calls[w].pc = "returned"
          /\ calls[w].result = UpsertNoOp
          /\ calls[w].err # "nil"

====
